---- MODULE Spec2Model ----
(***************************************************************************)
(* Model of mihm: the two probabilistic models BayesMIHM and               *)
(* RelaxedBayesMIHM (construction, forward, get_resilience_index) and the  *)
(* trial evaluation evaluate_significance run by parallel search trials.   *)
(*                                                                         *)
(* Tensors of floats are sequences of fixed-point integers in tenths       *)
(* (Scale = 10 stands for 1.0).  A batch is a sequence of rows.            *)
(***************************************************************************)
EXTENDS Integers, Sequences, FiniteSets, TLC

\* ---------------------------------------------------------------- bounds
MaxIV == 2        \* interaction_var_size of the models built
MaxCV == 1        \* controlled_var_size of the models built
MaxBatch == 2     \* a batch has 1 or MaxBatch observations
MaxTracked == 1   \* training-mode batches a normalisation layer may track
MaxTrials == 2    \* number of parallel search trials
MaxFiles == 1     \* files already present in save_dir: 0..MaxFiles

\* ------------------------------------------------- fixed-point arithmetic
Scale == 10
Mul(a, b) == (a * b) \div Scale
Div(a, b) == (a * Scale) \div b
ISqrt(n) == CHOOSE r \in 0..(n + 1) : r * r <= n /\ (r + 1) * (r + 1) > n
FSqrt(a) == ISqrt(a * Scale)
Max2(a, b) == IF a >= b THEN a ELSE b

RECURSIVE SumSeq(_)
SumSeq(s) == IF s = <<>> THEN 0 ELSE Head(s) + SumSeq(Tail(s))

\* Option values: None is the empty sequence, Some(v) a one-element one.
None == <<>>
Some(v) == <<v>>
IsNone(o) == o = <<>>
Get(o) == o[1]

Rows(X) == Len(X)
Cols(X) == IF Len(X) = 0 THEN 0 ELSE Len(X[1])

\* ------------------------------------------------------ torch primitives
\* F.gelu on tenths in [-3.0, 3.0], rounded to the nearest tenth; beyond
\* that range gelu(x) is 0 (left) or x (right) to within a tenth.
GeluTable ==
  << 0, 0, 0, 0, 0, 0, 0, 0, 0, 0, 0, -1, -1, -1, -1, -1, -1, -1, -1, -1,
     -2, -2, -2, -2, -2, -2, -1, -1, -1, 0, 0, 1, 1, 2, 3, 3, 4, 5, 6, 7,
     8, 10, 11, 12, 13, 14, 15, 16, 17, 18, 20, 21, 22, 23, 24, 25, 26, 27,
     28, 29, 30 >>
gelu(x) == IF x < -30 THEN 0 ELSE IF x > 30 THEN x ELSE GeluTable[x + 31]

\* nn.Linear(in_features, out_features) after initialize_weights: the
\* random initial values are one of the draws rng.
KaimingWeight(rng, j, k) == IF (j + k + rng) % 2 = 0 THEN 10 ELSE -5
BiasInit(rng, j) == IF (j + rng) % 2 = 0 THEN 1 ELSE -1
NewLinear(nin, nout, rng) ==
  [ in_features |-> nin, out_features |-> nout,
    weight |-> [j \in 1..nout |-> [k \in 1..nin |-> KaimingWeight(rng, j, k)]],
    bias |-> [j \in 1..nout |-> BiasInit(rng, j)] ]

\* y = x W^T + b for every row of X; weight has one row per output.
LinearApply(weight, bias, X) ==
  [b \in 1..Len(X) |->
     [j \in 1..Len(weight) |->
        SumSeq([k \in 1..Len(weight[j]) |-> Mul(X[b][k], weight[j][k])])
          + bias[j]]]

\* Variant: the slice that keeps every column of the basis.
SliceColsAll(M, k) == M

\* M[:, :k]: the first k columns (fewer when M has fewer).
SliceCols(M, k) ==
  [i \in 1..Len(M) |-> [j \in 1..(IF k < Cols(M) THEN k ELSE Cols(M)) |-> M[i][j]]]

\* torch.matmul(X, M) for X of shape (B, n) and M of shape (n, m).
MatMul(X, M) ==
  [b \in 1..Len(X) |->
     [j \in 1..Cols(M) |->
        SumSeq([i \in 1..Len(M) |-> Mul(X[b][i], M[i][j])])]]

MapGelu(X) == [b \in 1..Len(X) |-> [j \in 1..Len(X[b]) |-> gelu(X[b][j])]]

\* nn.Dropout(p) on the output of hidden layer i: identity in evaluation
\* mode; in training mode an element is zeroed or scaled by 1/(1-p).  The
\* random mask is one of the kinds below.
MaskKinds == {"keep", "alt"}
DropMask(kind, i, b, j) == IF kind = "keep" THEN 1 ELSE (i + b + j) % 2
Dropout(training, p, kind, i, X) ==
  IF ~training THEN X
  ELSE [b \in 1..Len(X) |->
          [j \in 1..Len(X[b]) |->
             IF DropMask(kind, i, b, j) = 1 THEN Div(X[b][j], Scale - p) ELSE 0]]

\* nn.BatchNorm1d(1, affine=False): momentum 0.1, eps (the smallest
\* positive tenth stands for 1e-5), running_mean 0 and running_var 1.
BnMomentum == 1
BnEps == 1
NewBatchNorm ==
  [num_features |-> 1, running_mean |-> 0, running_var |-> Scale, num_batches_tracked |-> 0]

BnError(bn, training, X) ==
  IF training /\ Rows(X) <= 1 THEN "ValueError"
  ELSE IF Cols(X) # bn.num_features THEN "RuntimeError"
  ELSE "ok"

BatchMean(X) == SumSeq([b \in 1..Len(X) |-> X[b][1]]) \div Len(X)
SqDev(X) == SumSeq([b \in 1..Len(X) |-> Mul(X[b][1] - BatchMean(X), X[b][1] - BatchMean(X))])
BatchVar(X) == SqDev(X) \div Len(X)
UnbiasedVar(X) == SqDev(X) \div (Len(X) - 1)

\* The normalised output, for an input BnError accepts.
BnOutput(bn, training, X) ==
  IF training
  THEN [b \in 1..Len(X) |-> << Div(X[b][1] - BatchMean(X), FSqrt(BatchVar(X) + BnEps)) >>]
  ELSE [b \in 1..Len(X) |-> << Div(X[b][1] - bn.running_mean, FSqrt(bn.running_var + BnEps)) >>]

\* The running statistics after the call.
BnUpdate(bn, training, X) ==
  IF training
  THEN [bn EXCEPT
          !.running_mean = Mul(Scale - BnMomentum, bn.running_mean) + Mul(BnMomentum, BatchMean(X)),
          !.running_var = Mul(Scale - BnMomentum, bn.running_var) + Mul(BnMomentum, UnbiasedVar(X)),
          !.num_batches_tracked = bn.num_batches_tracked + 1]
  ELSE bn


\* torch.randn(1, 1): one of the draws rng.
RandnInit(rng) == IF rng % 2 = 0 THEN 10 ELSE -10

\* ------------------------------------------------------------ BayesMIHM

\* Variant: the control layer sized with the reduced predictor dimension.
BayesMIHM_controlled_in_reduced(a) ==
  IF a.concatenate_interaction_vars
  THEN a.controlled_var_size + (IF a.svd THEN a.k_dim ELSE a.interaction_var_size)
  ELSE a.controlled_var_size

\* BayesMIHM.__init__: the input size of the control-weight layer.
BayesMIHM_controlled_in(a) ==
  IF a.concatenate_interaction_vars
  THEN a.controlled_var_size + a.interaction_var_size
  ELSE a.controlled_var_size

\* BayesMIHM.__init__: the object built from the arguments a, or the
\* AssertionError of a failed assert (no object).
BayesMIHM_init(a, rng) ==
  LET index_in == IF a.svd THEN a.k_dim ELSE a.interaction_var_size
      layer_input_sizes == <<index_in>> \o a.hidden_layer_sizes
  IN IF a.svd /\ IsNone(a.svd_matrix) THEN [ok |-> FALSE, err |-> "AssertionError", self |-> None]
     ELSE IF a.svd /\ ~(a.k_dim <= a.interaction_var_size)
     THEN [ok |-> FALSE, err |-> "AssertionError", self |-> None]
     ELSE [ok |-> TRUE, err |-> "ok", self |-> Some(
       [ cls |-> "BayesMIHM",
         concatenate_interaction_vars |-> a.concatenate_interaction_vars,
         dropout |-> a.dropout,
         batch_norm |-> a.batch_norm,
         bn |-> IF a.batch_norm THEN Some(NewBatchNorm) ELSE None,
         svd |-> a.svd,
         svd_matrix |-> IF a.svd THEN a.svd_matrix ELSE None,
         k_dim |-> IF a.svd THEN Some(a.k_dim) ELSE None,
         num_layers |-> Len(a.hidden_layer_sizes),
         layers |-> [i \in 1..Len(a.hidden_layer_sizes) |->
                       NewLinear(layer_input_sizes[i], layer_input_sizes[i + 1], rng)],
         controlled_var_weights |->
           [ in_features |-> BayesMIHM_controlled_in(a), out_features |-> 1,
             weight |-> None, bias |-> None ],
         index_main_weight |-> None,
         pyro_samples |->
           {"controlled_var_weights.weight", "controlled_var_weights.bias",
              "interaction_weight", "interactor_main_weight"}
             \cup (IF ~a.concatenate_interaction_vars THEN {"index_main_weight"} ELSE {})
             \cup (IF a.include_interactor_bias THEN {"interactor_bias"} ELSE {}),
         parameters |->
           {},
         include_interactor_bias |-> a.include_interactor_bias,
         training |-> TRUE ])]

\* BayesMIHM.forward: the input of the control-weight layer.
BayesMIHM_all_linear_vars(self, x, c) ==
  IF self.concatenate_interaction_vars
  THEN [b \in 1..Len(c) |-> c[b] \o x[b]]
  ELSE c

\* BayesMIHM.forward: the predictors after the optional reduction.
BayesMIHM_forward_reduce(self, x) ==
  IF self.svd THEN MatMul(x, SliceCols(Get(self.svd_matrix), Get(self.k_dim))) ELSE x

\* The layer loop of BayesMIHM.forward from layer i on: the last layer
\* is linear, every other is linear, gelu, dropout.  None is a shape error.
RECURSIVE BayesMIHM_forward_layers(_, _, _, _)
BayesMIHM_forward_layers(self, i, X, mask) ==
  IF i > Len(self.layers) THEN Some(X)
  ELSE IF Cols(X) # self.layers[i].in_features THEN None
  ELSE LET out == LinearApply(self.layers[i].weight, self.layers[i].bias, X)
       IN IF i = self.num_layers
          THEN BayesMIHM_forward_layers(self, i + 1, out, mask)
          ELSE BayesMIHM_forward_layers(self, i + 1,
                 Dropout(self.training, self.dropout, mask, i, MapGelu(out)), mask)

\* The latent index of BayesMIHM.forward: reduction, layers, normalisation.
BayesMIHM_forward_index(self, x, mask) ==
  IF self.svd /\ Cols(x) # Rows(Get(self.svd_matrix))
  THEN [ok |-> FALSE, err |-> "RuntimeError", fed |-> <<>>, value |-> <<>>, bn |-> self.bn]
  ELSE
  LET fed == BayesMIHM_forward_reduce(self, x)
      net == BayesMIHM_forward_layers(self, 1, fed, mask)
  IN IF IsNone(net)
     THEN [ok |-> FALSE, err |-> "RuntimeError", fed |-> fed, value |-> <<>>, bn |-> self.bn]
     ELSE IF ~self.batch_norm
     THEN [ok |-> TRUE, err |-> "ok", fed |-> fed, value |-> Get(net), bn |-> self.bn]
     ELSE IF BnError(Get(self.bn), self.training, Get(net)) # "ok"
     THEN [ok |-> FALSE, err |-> BnError(Get(self.bn), self.training, Get(net)),
           fed |-> fed, value |-> <<>>, bn |-> self.bn]
     ELSE [ok |-> TRUE, err |-> "ok", fed |-> fed,
           value |-> BnOutput(Get(self.bn), self.training, Get(net)),
           bn |-> Some(BnUpdate(Get(self.bn), self.training, Get(net)))]

\* Variant: the threshold subtracted without the clamp at zero.
BayesMIHM_interactor_unclamped(self, e, d) ==
  IF self.include_interactor_bias
  THEN [b \in 1..Len(e) |-> << e[b] - d.interactor_bias >>]
  ELSE [b \in 1..Len(e) |-> << e[b] >>]

\* BayesMIHM.forward: the effective exposure, one row per observation.
BayesMIHM_interactor(self, e, d) ==
  IF self.include_interactor_bias
  THEN [b \in 1..Len(e) |-> << Max2(0, e[b] - d.interactor_bias) >>]
  ELSE [b \in 1..Len(e) |-> << e[b] >>]

\* Variant: the index main-effect term left out.
BayesMIHM_predicted_epi_no_index_main(self, predicted_interaction_term, controlled_term, interactor_main_term, index_main_term) ==
  [b \in 1..Len(predicted_interaction_term) |->
     [j \in 1..Len(predicted_interaction_term[b]) |->
        predicted_interaction_term[b][j] + controlled_term[b][1]
          + interactor_main_term[b][1]]]

\* BayesMIHM.forward: the sum returned as predicted_epi.
BayesMIHM_predicted_epi(self, predicted_interaction_term, controlled_term, interactor_main_term, index_main_term) ==
  IF self.concatenate_interaction_vars
  THEN [b \in 1..Len(predicted_interaction_term) |->
          [j \in 1..Len(predicted_interaction_term[b]) |->
             predicted_interaction_term[b][j] + controlled_term[b][1]
               + interactor_main_term[b][1]]]
  ELSE [b \in 1..Len(predicted_interaction_term) |->
          [j \in 1..Len(predicted_interaction_term[b]) |->
             predicted_interaction_term[b][j] + controlled_term[b][1]
               + interactor_main_term[b][1] + index_main_term[b][j]]]

\* BayesMIHM.forward on a batch (x, e, c) with the values d drawn at the
\* sample sites and the dropout mask: the returned predicted_epi, the terms
\* it is built from, the normalisation state left behind and the sample
\* sites registered.  observed tells whether y was supplied; it conditions
\* the "obs" site only.  The control weights are the values d drawn at their sample sites.
BayesMIHM_forward(self, x, e, c, observed, d, mask) ==
  LET all_linear_vars == BayesMIHM_all_linear_vars(self, x, c)
      sites0 == {"controlled_var_weights.weight", "controlled_var_weights.bias"}
      fail(err, fed, bn, sites) ==
        [ ok |-> FALSE, err |-> err, predicted_epi |-> <<>>, predicted_index |-> <<>>,
          fed |-> fed, interactor |-> <<>>, controlled_term |-> <<>>,
          interactor_main_term |-> <<>>, predicted_interaction_term |-> <<>>,
          index_main_term |-> <<>>, bn |-> bn, sites |-> sites ]
  IN IF Cols(all_linear_vars) # self.controlled_var_weights.in_features
     THEN fail("RuntimeError", <<>>, self.bn, sites0)
     ELSE
     LET controlled_term == LinearApply(<<d.controlled_weight>>, <<d.controlled_bias>>, all_linear_vars)
         idx == BayesMIHM_forward_index(self, x, mask)
     IN IF ~idx.ok THEN fail(idx.err, idx.fed, idx.bn, sites0)
        ELSE
        LET predicted_index == idx.value
            interactor == BayesMIHM_interactor(self, e, d)
            interactor_main_term ==
              [b \in 1..Len(e) |-> << Mul(d.interactor_main_weight, interactor[b][1]) >>]
            predicted_interaction_term ==
              [b \in 1..Len(e) |->
                 [j \in 1..Len(predicted_index[b]) |->
                    Mul(Mul(d.interaction_weight, interactor[b][1]), predicted_index[b][j])]]
            index_main_term ==
              IF self.concatenate_interaction_vars THEN <<>>
              ELSE [b \in 1..Len(e) |->
                      [j \in 1..Len(predicted_index[b]) |->
                         Mul(predicted_index[b][j], d.index_main_weight)]]
        IN [ ok |-> TRUE, err |-> "ok",
             predicted_epi |->
               BayesMIHM_predicted_epi(self, predicted_interaction_term, controlled_term,
                                   interactor_main_term, index_main_term),
             predicted_index |-> predicted_index, fed |-> idx.fed,
             interactor |-> interactor, controlled_term |-> controlled_term,
             interactor_main_term |-> interactor_main_term,
             predicted_interaction_term |-> predicted_interaction_term,
             index_main_term |-> index_main_term,
             bn |-> idx.bn,
             sites |-> self.pyro_samples \cup {"sigma:Gamma", "obs"} ]

\* Variant: the module's dropout left in the loop of get_resilience_index.
RECURSIVE BayesMIHM_index_layers_dropout(_, _, _)
BayesMIHM_index_layers_dropout(self, i, X) ==
  IF i > Len(self.layers) THEN Some(X)
  ELSE IF Cols(X) # self.layers[i].in_features THEN None
  ELSE LET out == LinearApply(self.layers[i].weight, self.layers[i].bias, X)
       IN IF i = self.num_layers
          THEN BayesMIHM_index_layers_dropout(self, i + 1, out)
          ELSE BayesMIHM_index_layers_dropout(self, i + 1,
                 Dropout(self.training, self.dropout, "alt", i, MapGelu(out)))

\* The layer loop of BayesMIHM.get_resilience_index: no dropout.
RECURSIVE BayesMIHM_index_layers(_, _, _)
BayesMIHM_index_layers(self, i, X) ==
  IF i > Len(self.layers) THEN Some(X)
  ELSE IF Cols(X) # self.layers[i].in_features THEN None
  ELSE LET out == LinearApply(self.layers[i].weight, self.layers[i].bias, X)
       IN IF i = self.num_layers
          THEN BayesMIHM_index_layers(self, i + 1, out)
          ELSE BayesMIHM_index_layers(self, i + 1, MapGelu(out))

\* BayesMIHM.get_resilience_index: reduction and layers only.
BayesMIHM_get_resilience_index(self, x) ==
  IF self.svd /\ Cols(x) # Rows(Get(self.svd_matrix))
  THEN [ok |-> FALSE, err |-> "RuntimeError", fed |-> <<>>, value |-> <<>>]
  ELSE
  LET fed == IF self.svd THEN MatMul(x, SliceCols(Get(self.svd_matrix), Get(self.k_dim))) ELSE x
      net == BayesMIHM_index_layers(self, 1, fed)
  IN IF IsNone(net)
     THEN [ok |-> FALSE, err |-> "RuntimeError", fed |-> fed, value |-> <<>>]
     ELSE [ok |-> TRUE, err |-> "ok", fed |-> fed, value |-> Get(net)]

\* ------------------------------------------------------------ RelaxedBayesMIHM

\* RelaxedBayesMIHM.__init__: the input size of the control-weight layer.
RelaxedBayesMIHM_controlled_in(a) ==
  IF a.concatenate_interaction_vars
  THEN a.controlled_var_size + a.interaction_var_size
  ELSE a.controlled_var_size

\* RelaxedBayesMIHM.__init__: the object built from the arguments a, or the
\* AssertionError of a failed assert (no object).
RelaxedBayesMIHM_init(a, rng) ==
  LET index_in == IF a.svd THEN a.k_dim ELSE a.interaction_var_size
      layer_input_sizes == <<index_in>> \o a.hidden_layer_sizes
  IN IF a.svd /\ IsNone(a.svd_matrix) THEN [ok |-> FALSE, err |-> "AssertionError", self |-> None]
     ELSE IF a.svd /\ ~(a.k_dim <= a.interaction_var_size)
     THEN [ok |-> FALSE, err |-> "AssertionError", self |-> None]
     ELSE [ok |-> TRUE, err |-> "ok", self |-> Some(
       [ cls |-> "RelaxedBayesMIHM",
         concatenate_interaction_vars |-> a.concatenate_interaction_vars,
         dropout |-> a.dropout,
         batch_norm |-> a.batch_norm,
         bn |-> IF a.batch_norm THEN Some(NewBatchNorm) ELSE None,
         svd |-> a.svd,
         svd_matrix |-> IF a.svd THEN a.svd_matrix ELSE None,
         k_dim |-> IF a.svd THEN Some(a.k_dim) ELSE None,
         num_layers |-> Len(a.hidden_layer_sizes),
         layers |-> [i \in 1..Len(a.hidden_layer_sizes) |->
                       NewLinear(layer_input_sizes[i], layer_input_sizes[i + 1], rng)],
         controlled_var_weights |->
           [ in_features |-> RelaxedBayesMIHM_controlled_in(a), out_features |-> 1,
             weight |-> Some(NewLinear(RelaxedBayesMIHM_controlled_in(a), 1, rng).weight[1]),
             bias |-> Some(NewLinear(RelaxedBayesMIHM_controlled_in(a), 1, rng).bias[1]) ],
         index_main_weight |-> IF ~a.concatenate_interaction_vars THEN Some(RandnInit(rng)) ELSE None,
         pyro_samples |->
           {"interaction_weight", "interactor_main_weight"}
             \cup (IF a.include_interactor_bias THEN {"interactor_bias"} ELSE {}),
         parameters |->
           {"controlled_var_weights.weight", "controlled_var_weights.bias"}
             \cup (IF ~a.concatenate_interaction_vars THEN {"index_main_weight"} ELSE {}),
         include_interactor_bias |-> a.include_interactor_bias,
         training |-> TRUE ])]

\* RelaxedBayesMIHM.forward: the input of the control-weight layer.
RelaxedBayesMIHM_all_linear_vars(self, x, c) ==
  IF self.concatenate_interaction_vars
  THEN [b \in 1..Len(c) |-> c[b] \o x[b]]
  ELSE c

\* RelaxedBayesMIHM.forward: the predictors after the optional reduction.
RelaxedBayesMIHM_forward_reduce(self, x) ==
  IF self.svd THEN MatMul(x, SliceCols(Get(self.svd_matrix), Get(self.k_dim))) ELSE x

\* The layer loop of RelaxedBayesMIHM.forward from layer i on: the last layer
\* is linear, every other is linear, gelu, dropout.  None is a shape error.
RECURSIVE RelaxedBayesMIHM_forward_layers(_, _, _, _)
RelaxedBayesMIHM_forward_layers(self, i, X, mask) ==
  IF i > Len(self.layers) THEN Some(X)
  ELSE IF Cols(X) # self.layers[i].in_features THEN None
  ELSE LET out == LinearApply(self.layers[i].weight, self.layers[i].bias, X)
       IN IF i = self.num_layers
          THEN RelaxedBayesMIHM_forward_layers(self, i + 1, out, mask)
          ELSE RelaxedBayesMIHM_forward_layers(self, i + 1,
                 Dropout(self.training, self.dropout, mask, i, MapGelu(out)), mask)

\* The latent index of RelaxedBayesMIHM.forward: reduction, layers, normalisation.
RelaxedBayesMIHM_forward_index(self, x, mask) ==
  IF self.svd /\ Cols(x) # Rows(Get(self.svd_matrix))
  THEN [ok |-> FALSE, err |-> "RuntimeError", fed |-> <<>>, value |-> <<>>, bn |-> self.bn]
  ELSE
  LET fed == RelaxedBayesMIHM_forward_reduce(self, x)
      net == RelaxedBayesMIHM_forward_layers(self, 1, fed, mask)
  IN IF IsNone(net)
     THEN [ok |-> FALSE, err |-> "RuntimeError", fed |-> fed, value |-> <<>>, bn |-> self.bn]
     ELSE IF ~self.batch_norm
     THEN [ok |-> TRUE, err |-> "ok", fed |-> fed, value |-> Get(net), bn |-> self.bn]
     ELSE IF BnError(Get(self.bn), self.training, Get(net)) # "ok"
     THEN [ok |-> FALSE, err |-> BnError(Get(self.bn), self.training, Get(net)),
           fed |-> fed, value |-> <<>>, bn |-> self.bn]
     ELSE [ok |-> TRUE, err |-> "ok", fed |-> fed,
           value |-> BnOutput(Get(self.bn), self.training, Get(net)),
           bn |-> Some(BnUpdate(Get(self.bn), self.training, Get(net)))]

\* RelaxedBayesMIHM.forward: the effective exposure, one row per observation.
RelaxedBayesMIHM_interactor(self, e, d) ==
  IF self.include_interactor_bias
  THEN [b \in 1..Len(e) |-> << Max2(0, e[b] - d.interactor_bias) >>]
  ELSE [b \in 1..Len(e) |-> << e[b] >>]

\* Variant: the index main-effect term left out.
RelaxedBayesMIHM_predicted_epi_no_index_main(self, predicted_interaction_term, controlled_term, interactor_main_term, index_main_term) ==
  [b \in 1..Len(predicted_interaction_term) |->
     [j \in 1..Len(predicted_interaction_term[b]) |->
        predicted_interaction_term[b][j] + controlled_term[b][1]
          + interactor_main_term[b][1]]]

\* RelaxedBayesMIHM.forward: the sum returned as predicted_epi.
RelaxedBayesMIHM_predicted_epi(self, predicted_interaction_term, controlled_term, interactor_main_term, index_main_term) ==
  IF self.concatenate_interaction_vars
  THEN [b \in 1..Len(predicted_interaction_term) |->
          [j \in 1..Len(predicted_interaction_term[b]) |->
             predicted_interaction_term[b][j] + controlled_term[b][1]
               + interactor_main_term[b][1]]]
  ELSE [b \in 1..Len(predicted_interaction_term) |->
          [j \in 1..Len(predicted_interaction_term[b]) |->
             predicted_interaction_term[b][j] + controlled_term[b][1]
               + interactor_main_term[b][1] + index_main_term[b][j]]]

\* RelaxedBayesMIHM.forward on a batch (x, e, c) with the values d drawn at the
\* sample sites and the dropout mask: the returned predicted_epi, the terms
\* it is built from, the normalisation state left behind and the sample
\* sites registered.  observed tells whether y was supplied; it conditions
\* the "obs" site only.  The control weights are the point-estimated parameters of the object.
RelaxedBayesMIHM_forward(self, x, e, c, observed, d, mask) ==
  LET all_linear_vars == RelaxedBayesMIHM_all_linear_vars(self, x, c)
      sites0 == {}
      fail(err, fed, bn, sites) ==
        [ ok |-> FALSE, err |-> err, predicted_epi |-> <<>>, predicted_index |-> <<>>,
          fed |-> fed, interactor |-> <<>>, controlled_term |-> <<>>,
          interactor_main_term |-> <<>>, predicted_interaction_term |-> <<>>,
          index_main_term |-> <<>>, bn |-> bn, sites |-> sites ]
  IN IF Cols(all_linear_vars) # self.controlled_var_weights.in_features
     THEN fail("RuntimeError", <<>>, self.bn, sites0)
     ELSE
     LET controlled_term == LinearApply(<<Get(self.controlled_var_weights.weight)>>, <<Get(self.controlled_var_weights.bias)>>, all_linear_vars)
         idx == RelaxedBayesMIHM_forward_index(self, x, mask)
     IN IF ~idx.ok THEN fail(idx.err, idx.fed, idx.bn, sites0)
        ELSE
        LET predicted_index == idx.value
            interactor == RelaxedBayesMIHM_interactor(self, e, d)
            interactor_main_term ==
              [b \in 1..Len(e) |-> << Mul(d.interactor_main_weight, interactor[b][1]) >>]
            predicted_interaction_term ==
              [b \in 1..Len(e) |->
                 [j \in 1..Len(predicted_index[b]) |->
                    Mul(Mul(d.interaction_weight, interactor[b][1]), predicted_index[b][j])]]
            index_main_term ==
              IF self.concatenate_interaction_vars THEN <<>>
              ELSE [b \in 1..Len(e) |->
                      [j \in 1..Len(predicted_index[b]) |->
                         Mul(predicted_index[b][j], Get(self.index_main_weight))]]
        IN [ ok |-> TRUE, err |-> "ok",
             predicted_epi |->
               RelaxedBayesMIHM_predicted_epi(self, predicted_interaction_term, controlled_term,
                                   interactor_main_term, index_main_term),
             predicted_index |-> predicted_index, fed |-> idx.fed,
             interactor |-> interactor, controlled_term |-> controlled_term,
             interactor_main_term |-> interactor_main_term,
             predicted_interaction_term |-> predicted_interaction_term,
             index_main_term |-> index_main_term,
             bn |-> idx.bn,
             sites |-> self.pyro_samples \cup {"sigma:HalfNormal", "obs"} ]

\* The layer loop of RelaxedBayesMIHM.get_resilience_index: no dropout.
RECURSIVE RelaxedBayesMIHM_index_layers(_, _, _)
RelaxedBayesMIHM_index_layers(self, i, X) ==
  IF i > Len(self.layers) THEN Some(X)
  ELSE IF Cols(X) # self.layers[i].in_features THEN None
  ELSE LET out == LinearApply(self.layers[i].weight, self.layers[i].bias, X)
       IN IF i = self.num_layers
          THEN RelaxedBayesMIHM_index_layers(self, i + 1, out)
          ELSE RelaxedBayesMIHM_index_layers(self, i + 1, MapGelu(out))

\* RelaxedBayesMIHM.get_resilience_index: reduction and layers only.
RelaxedBayesMIHM_get_resilience_index(self, x) ==
  IF self.svd /\ Cols(x) # Rows(Get(self.svd_matrix))
  THEN [ok |-> FALSE, err |-> "RuntimeError", fed |-> <<>>, value |-> <<>>]
  ELSE
  LET fed == IF self.svd THEN MatMul(x, SliceCols(Get(self.svd_matrix), Get(self.k_dim))) ELSE x
      net == RelaxedBayesMIHM_index_layers(self, 1, fed)
  IN IF IsNone(net)
     THEN [ok |-> FALSE, err |-> "RuntimeError", fed |-> fed, value |-> <<>>]
     ELSE [ok |-> TRUE, err |-> "ok", fed |-> fed, value |-> Get(net)]

\* An attribute of the object exists when it was declared as a PyroSample
\* or registered as a parameter.
HasAttr(self, name) == name \in self.pyro_samples \cup self.parameters

\* ------------------------------------------------------------ the inputs
DefaultDropout == 5
DefaultKDim == 10
Classes == {"BayesMIHM", "RelaxedBayesMIHM"}
HiddenChoices == { <<1>>, <<2, 1>>, <<2, 2>> }
Rngs == {0}

\* A reduction basis of r rows and c columns.
Basis(r, c) ==
  [i \in 1..r |-> [j \in 1..c |-> IF i = j THEN 10 ELSE IF i < j THEN 5 ELSE -5]]
BasisChoices ==
  {None} \cup { Some(Basis(MaxIV, c)) : c \in 1..MaxIV }

\* The constructor arguments tried.  Without svd the code reads neither
\* svd_matrix nor k_dim, which keep their defaults.
CtorArgs ==
  { a \in [ interaction_var_size : {MaxIV},
            controlled_var_size : {MaxCV},
            hidden_layer_sizes : HiddenChoices,
            include_interactor_bias : BOOLEAN,
            dropout : {DefaultDropout},
            svd : BOOLEAN,
            svd_matrix : BasisChoices,
            k_dim : (1..(MaxIV + 1)) \cup {DefaultKDim},
            concatenate_interaction_vars : BOOLEAN,
            batch_norm : BOOLEAN ] :
      IF a.svd THEN a.k_dim # DefaultKDim
      ELSE a.svd_matrix = None /\ a.k_dim = DefaultKDim }

\* Observations: interaction predictors x, exposure e, controls c.
ObsKinds == {"zero", "mixed"}
ObsX(kind, n) ==
  [i \in 1..n |-> IF kind = "zero" THEN 0 ELSE IF i % 2 = 1 THEN 10 ELSE -20]
ObsE(kind) == IF kind = "zero" THEN 100 ELSE 10
ObsC(kind, n) ==
  [i \in 1..n |-> IF kind = "zero" THEN 0 ELSE IF i % 2 = 1 THEN 10 ELSE -5]
BatchKinds ==
  { [b \in 1..n |-> IF b % 2 = 1 THEN k ELSE CHOOSE o \in ObsKinds : o # k] :
      n \in {1, MaxBatch}, k \in ObsKinds }

\* The values drawn at the sample sites of one forward call; n is the
\* length of the control-weight vector.
Draw(k, n) ==
  IF k = 1
  THEN [ controlled_weight |-> [i \in 1..n |-> 10], controlled_bias |-> 0,
         interaction_weight |-> 10, interactor_main_weight |-> 10,
         index_main_weight |-> 10, interactor_bias |-> 20 ]
  ELSE [ controlled_weight |-> [i \in 1..n |-> IF i % 2 = 1 THEN -10 ELSE 5],
         controlled_bias |-> 10,
         interaction_weight |-> 20, interactor_main_weight |-> -10,
         index_main_weight |-> -5, interactor_bias |-> 5 ]
NoDraw == Draw(1, 0)
\* The forward calls tried: which values are drawn, and whether the
\* observed outcome y is supplied.
CallKinds == { [draw |-> 1, observed |-> TRUE], [draw |-> 2, observed |-> FALSE] }

\* ---------------------------------------------------------------- state
VARIABLES
  pc,         \* "new", "built" (constructor returned) or "failed" (it raised)
  ctor,       \* the constructor call: class and arguments
  self,       \* the model object, None when there is none
  call,       \* the last forward / get_resilience_index call and its result
  trace,      \* the sample sites registered by the last forward call
  files,      \* save_dir: file name -> the trial whose data it holds
  trial       \* each search trial's position in evaluate_significance

modelVars == <<pc, ctor, self, call, trace>>
trialVars == <<files, trial>>
vars == <<pc, ctor, self, call, trace, files, trial>>

NoResult ==
  [ ok |-> TRUE, err |-> "ok", predicted_epi |-> <<>>, predicted_index |-> <<>>,
    fed |-> <<>>, interactor |-> <<>>, controlled_term |-> <<>>,
    interactor_main_term |-> <<>>, predicted_interaction_term |-> <<>>,
    index_main_term |-> <<>>, bn |-> None, sites |-> {} ]
NoCall ==
  [ op |-> "none", x |-> <<>>, e |-> <<>>, c |-> <<>>, d |-> NoDraw,
    mask |-> "keep", res |-> NoResult ]
NoCtor == [ cls |-> "none", args |-> None ]

ModelInit(cls, a, rng) ==
  IF cls = "BayesMIHM" THEN BayesMIHM_init(a, rng) ELSE RelaxedBayesMIHM_init(a, rng)
ModelForward(m, x, e, c, observed, d, mask) ==
  IF m.cls = "BayesMIHM" THEN BayesMIHM_forward(m, x, e, c, observed, d, mask)
  ELSE RelaxedBayesMIHM_forward(m, x, e, c, observed, d, mask)
ModelIndex(m, x) ==
  IF m.cls = "BayesMIHM" THEN BayesMIHM_get_resilience_index(m, x)
  ELSE RelaxedBayesMIHM_get_resilience_index(m, x)

\* ------------------------------------------------------- model operations
\* cls(**a): the constructor call.
Construct ==
  /\ pc = "new"
  /\ \E cls \in Classes, a \in CtorArgs, rng \in Rngs :
       LET r == ModelInit(cls, a, rng)
       IN /\ pc' = IF r.ok THEN "built" ELSE "failed"
          /\ ctor' = [cls |-> cls, args |-> Some(a)]
          /\ self' = r.self
  /\ UNCHANGED <<call, trace, files, trial>>

\* model.train() and model.eval() of nn.Module.
Train ==
  /\ pc = "built"
  /\ self' = Some([Get(self) EXCEPT !.training = TRUE])
  /\ UNCHANGED <<pc, ctor, call, trace, files, trial>>
Eval ==
  /\ pc = "built"
  /\ self' = Some([Get(self) EXCEPT !.training = FALSE])
  /\ UNCHANGED <<pc, ctor, call, trace, files, trial>>

\* The dropout masks that can differ: only a training-mode call of a
\* network with a hidden (non-last) layer draws one.
Masks(m) == IF m.training /\ m.num_layers >= 2 THEN MaskKinds ELSE {"keep"}

\* model(x, e, c, y) with y supplied or not.
Forward ==
  /\ pc = "built"
  /\ (Get(self).training /\ Get(self).batch_norm)
       => Get(Get(self).bn).num_batches_tracked < MaxTracked
  /\ \E bk \in BatchKinds, ck \in CallKinds :
     \E mask \in Masks(Get(self)) :
       LET m == Get(self)
           a == Get(ctor.args)
           x == [b \in 1..Len(bk) |-> ObsX(bk[b], a.interaction_var_size)]
           e == [b \in 1..Len(bk) |-> ObsE(bk[b])]
           c == [b \in 1..Len(bk) |-> ObsC(bk[b], a.controlled_var_size)]
           d == Draw(ck.draw, m.controlled_var_weights.in_features)
           r == ModelForward(m, x, e, c, ck.observed, d, mask)
       IN /\ call' = [ op |-> "forward", x |-> x, e |-> e, c |-> c, d |-> d,
                       mask |-> mask, res |-> r ]
          /\ self' = Some([m EXCEPT !.bn = r.bn])
          /\ trace' = r.sites
  /\ UNCHANGED <<pc, ctor, files, trial>>

\* model.get_resilience_index(x).
GetResilienceIndex ==
  /\ pc = "built"
  /\ \E bk \in BatchKinds :
       LET m == Get(self)
           a == Get(ctor.args)
           x == [b \in 1..Len(bk) |-> ObsX(bk[b], a.interaction_var_size)]
           r == ModelIndex(m, x)
       IN call' = [ NoCall EXCEPT !.op = "get_resilience_index", !.x = x,
                      !.res = [ NoResult EXCEPT !.ok = r.ok, !.err = r.err,
                                  !.fed = r.fed, !.predicted_index = r.value,
                                  !.bn = m.bn ] ]
  /\ UNCHANGED <<pc, ctor, self, trace, files, trial>>

Init ==
  /\ pc = "new"
  /\ ctor = NoCtor
  /\ self = None
  /\ call = NoCall
  /\ trace = {}
  /\ files = <<>>
  /\ trial = <<>>

Next == Construct \/ Train \/ Eval \/ Forward \/ GetResilienceIndex

Spec == Init /\ [][Next]_vars

\* ------------------------------------------------- evaluate_significance
\* A file of save_dir: index_prediction_<n>.dta, or some other file.
PredictionFile(n) == [kind |-> "index_prediction", n |-> n]
OtherFile(n) == [kind |-> "other", n |-> n]
\* The directories a search can start from: the prediction files earlier
\* calls numbered 0, 1, ... and some other files; 0 marks data no trial of
\* this search wrote.
InitDirs ==
  { [name \in { PredictionFile(i) : i \in 0..(n - 1) } \cup { OtherFile(i) : i \in 1..m } |-> 0] :
      n \in 0..MaxFiles, m \in 0..MaxFiles }

Trials == 1..MaxTrials
IdleTrial ==
  [ pc |-> "idle", id |-> None, save_path |-> None, wrote_over |-> FALSE,
    loaded |-> None, result |-> None ]

\* Lines 37-41: the save path, from id or from the number of files listed.
NamePath(t) ==
  /\ trial[t].pc = "idle"
  /\ \E id \in {None, Some(t)} :
       LET num_files == Cardinality(DOMAIN files)
           save_path == IF ~IsNone(id) THEN PredictionFile(Get(id))
                        ELSE PredictionFile(num_files)
       IN trial' = [trial EXCEPT ![t] = [@ EXCEPT !.pc = "named", !.id = id,
                                                   !.save_path = Some(save_path)]]
  /\ UNCHANGED <<files, pc, ctor, self, call, trace>>

\* Lines 44-45: df_orig.to_stata(save_path) creates or replaces the file.
SaveFile(t) ==
  /\ trial[t].pc = "named"
  /\ LET path == Get(trial[t].save_path)
     IN /\ files' = [name \in DOMAIN files \cup {path} |->
                       IF name = path THEN t ELSE files[name]]
        /\ trial' = [trial EXCEPT ![t] = [@ EXCEPT !.pc = "saved",
                                                    !.wrote_over = path \in DOMAIN files]]
  /\ UNCHANGED <<pc, ctor, self, call, trace>>

\* Lines 48-49: stata loads whatever the file holds now.
LoadFile(t) ==
  /\ trial[t].pc = "saved"
  /\ trial' = [trial EXCEPT ![t] = [@ EXCEPT !.pc = "loaded",
                                                !.loaded = Some(files[Get(trial[t].save_path)])]]
  /\ UNCHANGED <<files, pc, ctor, self, call, trace>>

\* Lines 50-62: the regression and vif run on the loaded data.
Regress(t) ==
  /\ trial[t].pc = "loaded"
  /\ trial' = [trial EXCEPT ![t] = [@ EXCEPT !.pc = "done", !.result = trial[t].loaded]]
  /\ UNCHANGED <<files, pc, ctor, self, call, trace>>

InitTrials ==
  /\ pc = "new"
  /\ ctor = NoCtor
  /\ self = None
  /\ call = NoCall
  /\ trace = {}
  /\ files \in InitDirs
  /\ trial = [t \in Trials |-> IdleTrial]

NextTrials == \E t \in Trials : NamePath(t) \/ SaveFile(t) \/ LoadFile(t) \/ Regress(t)

SpecTrials == InitTrials /\ [][NextTrials]_vars


\* ------------------------------------------------------------ properties
ModelForwardIndex(m, x, mask) ==
  IF m.cls = "BayesMIHM" THEN BayesMIHM_forward_index(m, x, mask)
  ELSE RelaxedBayesMIHM_forward_index(m, x, mask)

ForwardReturned == pc = "built" /\ call.op = "forward" /\ call.res.ok
IndexReturned == pc = "built" /\ call.op = "get_resilience_index" /\ call.res.ok

\* The index main-effect weight a forward call used.
UsedIndexMainWeight ==
  IF Get(self).cls = "BayesMIHM" THEN call.d.index_main_weight
  ELSE Get(Get(self).index_main_weight)

\* C1: the predicted outcome forward returns is, for every observation,
\* interaction term + controlled term + exposure main-effect term, with
\* interaction term = interaction_weight x effective exposure x latent index
\* and main-effect term = interactor_main_weight x effective exposure; the
\* term latent index x index_main_weight is added exactly when
\* concatenate_interaction_vars is false.
C1_PredictedEpiIsSumOfTerms ==
  ForwardReturned =>
    LET r == call.res
        d == call.d
        m == Get(self)
    IN /\ Len(r.predicted_epi) = Len(call.x)
       /\ \A b \in 1..Len(r.predicted_epi) :
            /\ Len(r.predicted_epi[b]) = Len(r.predicted_index[b])
            /\ \A j \in 1..Len(r.predicted_epi[b]) :
                 r.predicted_epi[b][j] =
                   Mul(Mul(d.interaction_weight, r.interactor[b][1]), r.predicted_index[b][j])
                   + r.controlled_term[b][1]
                   + Mul(d.interactor_main_weight, r.interactor[b][1])
                   + (IF m.concatenate_interaction_vars THEN 0
                      ELSE Mul(r.predicted_index[b][j], UsedIndexMainWeight))

C1_Witness ==
  /\ ForwardReturned
  /\ ~Get(self).concatenate_interaction_vars
  /\ \E b \in 1..Len(call.res.predicted_index) :
       Mul(call.res.predicted_index[b][1], UsedIndexMainWeight) # 0

\* C2: with include_interactor_bias the effective exposure of forward is
\* exposure - threshold_bias where that is positive and 0 otherwise, so it
\* is never negative; without it the effective exposure is the raw exposure.
C2_EffectiveExposure ==
  ForwardReturned =>
    \A b \in 1..Len(call.e) :
      LET eff == call.res.interactor[b][1]
          bias == call.d.interactor_bias
      IN IF Get(self).include_interactor_bias
         THEN /\ eff >= 0
              /\ (call.e[b] >= bias => eff = call.e[b] - bias)
              /\ (call.e[b] < bias => eff = 0)
         ELSE eff = call.e[b]

C2_Witness ==
  /\ ForwardReturned
  /\ Get(self).include_interactor_bias
  /\ \E b \in 1..Len(call.e) : call.e[b] < call.d.interactor_bias
  /\ \E b \in 1..Len(call.e) :
       call.e[b] = 100 /\ call.d.interactor_bias = 20 /\ call.res.interactor[b][1] = 80

\* C3: a constructor call with svd and no basis, or with svd and k_dim above
\* interaction_var_size, raises and yields no object; and every invalid
\* dimension combination is rejected there, so no forward call on a
\* constructed model fails on the shapes the configuration fixed.
C3_RejectedAtConstruction ==
  /\ pc \in {"built", "failed"} =>
       LET a == Get(ctor.args)
       IN (a.svd /\ (IsNone(a.svd_matrix) \/ a.k_dim > a.interaction_var_size))
            => (pc = "failed" /\ self = None)
  /\ (pc = "built" /\ call.op = "forward") => call.res.err # "RuntimeError"

\* C4: with concatenate_interaction_vars the control-weight layer takes
\* controlled_var_size + interaction_var_size inputs (the unreduced size,
\* also under reduction) and the object has no index_main_weight; without
\* it the layer takes controlled_var_size inputs and index_main_weight
\* exists.
C4_ControlInputDimension ==
  pc = "built" =>
    LET a == Get(ctor.args)
        m == Get(self)
    IN IF a.concatenate_interaction_vars
       THEN /\ m.controlled_var_weights.in_features
                 = a.controlled_var_size + a.interaction_var_size
            /\ ~HasAttr(m, "index_main_weight")
            /\ IsNone(m.index_main_weight)
       ELSE /\ m.controlled_var_weights.in_features = a.controlled_var_size
            /\ HasAttr(m, "index_main_weight")

C4_Witness ==
  /\ pc = "built"
  /\ Get(ctor.args).concatenate_interaction_vars
  /\ Get(ctor.args).svd
  /\ Get(ctor.args).k_dim < Get(ctor.args).interaction_var_size

\* A basis that agrees with M on the first k columns and differs beyond.
AltShifts == {1, 2}
AltBasis(M, k, v) ==
  [i \in 1..Len(M) |-> [j \in 1..Len(M[i]) |-> IF j <= k THEN M[i][j] ELSE M[i][j] + v * i]]

\* C5: under reduction with retained dimension k (and a basis of at least
\* k columns) the vector fed to the first index-network layer has exactly k
\* components, and replacing the basis by one that differs only in columns
\* beyond k changes neither the result of forward nor that of
\* get_resilience_index.
C5_UnusedBasisColumns ==
  (/\ pc = "built"
   /\ call.op # "none"
   /\ Get(self).svd
   /\ Cols(Get(Get(self).svd_matrix)) >= Get(Get(self).k_dim)) =>
    LET m == Get(self)
        k == Get(m.k_dim)
    IN /\ \A b \in 1..Len(call.res.fed) : Len(call.res.fed[b]) = k
       /\ Len(call.res.fed) = Len(call.x)
       /\ \A v \in AltShifts :
            LET m2 == [m EXCEPT !.svd_matrix = Some(AltBasis(Get(m.svd_matrix), k, v))]
            IN /\ ModelIndex(m2, call.x) = ModelIndex(m, call.x)
               /\ call.op = "forward" =>
                    \A observed \in BOOLEAN :
                      ModelForward(m2, call.x, call.e, call.c, observed, call.d, call.mask)
                        = ModelForward(m, call.x, call.e, call.c, observed, call.d, call.mask)

C5_Witness ==
  /\ ForwardReturned
  /\ Get(self).svd
  /\ Cols(Get(Get(self).svd_matrix)) > Get(Get(self).k_dim)
  /\ AltBasis(Get(Get(self).svd_matrix), Get(Get(self).k_dim), 1) # Get(Get(self).svd_matrix)
  /\ \E b \in 1..Len(call.x) : \E i \in 1..Len(call.x[b]) : call.x[b][i] # 0

\* C6: get_resilience_index returns the latent index forward computes with
\* dropout disabled and the normalisation in inference behaviour, for every
\* configuration, batch_norm included (compared wherever that forward
\* computation returns an index).
C6_IndexEqualsInferenceForward ==
  IndexReturned =>
    LET evalm == [Get(self) EXCEPT !.training = FALSE]
        f == ModelForwardIndex(evalm, call.x, "keep")
    IN f.ok => call.res.predicted_index = f.value

\* C7: a get_resilience_index call changes neither the model object nor the
\* registered sample sites, and a call that repeats the input of the call
\* before it returns the same result, whichever mode the module was put in
\* between the two.
C7_IndexCallDeterministic ==
  [][ (call'.op = "get_resilience_index" /\ call' # call) =>
        /\ self' = self
        /\ trace' = trace
        /\ ~(call.op = "get_resilience_index" /\ call.x = call'.x) ]_vars

C7_Witness ==
  /\ IndexReturned
  /\ Get(self).training
  /\ Get(self).num_layers >= 2
  /\ trace # {}
  /\ \E b \in 1..Len(call.res.predicted_index) : call.res.predicted_index[b][1] # 0

\* C8: the latent index of a returned forward or get_resilience_index call
\* has exactly one component per observation, whatever hidden_layer_sizes is.
C8_ScalarIndex ==
  (pc = "built" /\ call.op # "none" /\ call.res.ok) =>
    /\ Len(call.res.predicted_index) = Len(call.x)
    /\ \A b \in 1..Len(call.res.predicted_index) : Len(call.res.predicted_index[b]) = 1

\* C9: for calls of evaluate_significance with id unset, a trial's
\* regression reads the data that trial saved, no save replaces an existing
\* file, and no two calls write the same path.
AllIdsUnset == \A t \in Trials : IsNone(trial[t].id)
Wrote(t) == trial[t].pc \in {"saved", "loaded", "done"}
C9_TrialsIsolated ==
  AllIdsUnset =>
    \A t \in Trials :
      /\ ~trial[t].wrote_over
      /\ (~IsNone(trial[t].loaded)) => Get(trial[t].loaded) = t
      /\ \A u \in Trials \ {t} :
           (Wrote(t) /\ Wrote(u)) => trial[t].save_path # trial[u].save_path

\* The object of the other class with the same configuration and weights,
\* and the draws that give its sampled weights the same values.
RelaxedTwin(m, d) ==
  [m EXCEPT !.cls = "RelaxedBayesMIHM",
            !.controlled_var_weights.weight = Some(d.controlled_weight),
            !.controlled_var_weights.bias = Some(d.controlled_bias),
            !.index_main_weight =
               IF m.concatenate_interaction_vars THEN None ELSE Some(d.index_main_weight)]
BayesTwin(m) ==
  [m EXCEPT !.cls = "BayesMIHM",
            !.controlled_var_weights.weight = None,
            !.controlled_var_weights.bias = None,
            !.index_main_weight = None]
BayesDraw(m, d) ==
  [d EXCEPT !.controlled_weight = Get(m.controlled_var_weights.weight),
            !.controlled_bias = Get(m.controlled_var_weights.bias),
            !.index_main_weight =
               IF m.concatenate_interaction_vars THEN d.index_main_weight
               ELSE Get(m.index_main_weight)]

\* C10: on the same configuration, inputs, dropout mask, normalisation
\* state and weight values, RelaxedBayesMIHM.forward and BayesMIHM.forward
\* return the same predicted outcome (or fail alike), with y supplied or not.
C10_RelaxedEqualsBayes ==
  (pc = "built" /\ call.op = "forward") =>
    LET m == Get(self)
        bayes == IF m.cls = "BayesMIHM" THEN m ELSE BayesTwin(m)
        relaxed == IF m.cls = "BayesMIHM" THEN RelaxedTwin(m, call.d) ELSE m
        db == IF m.cls = "BayesMIHM" THEN call.d ELSE BayesDraw(m, call.d)
    IN \A yb \in BOOLEAN, yr \in BOOLEAN :
         LET rb == BayesMIHM_forward(bayes, call.x, call.e, call.c, yb, db, call.mask)
             rr == RelaxedBayesMIHM_forward(relaxed, call.x, call.e, call.c, yr, call.d, call.mask)
         IN /\ rb.ok = rr.ok
            /\ rb.err = rr.err
            /\ rb.predicted_epi = rr.predicted_epi
            /\ rb.bn = rr.bn

C10_Witness ==
  /\ ForwardReturned
  /\ Get(self).cls = "RelaxedBayesMIHM"
  /\ ~Get(self).concatenate_interaction_vars
  /\ Get(self).batch_norm
  /\ Get(self).num_layers >= 2
  /\ call.mask = "alt"
  /\ \E b \in 1..Len(call.res.predicted_epi) : call.res.predicted_epi[b][1] # 0

====
